---- MODULE Spec2Model ----
(***************************************************************************)
(* Model of express-redis-server/server.js: an express application with    *)
(* one route, POST /signal, that publishes the parsed JSON body on the     *)
(* redis channel 'trading-signals' through one shared client created by    *)
(* createClient() with the library's default options.                      *)
(*                                                                         *)
(* Modelled requests are POST /signal requests that carry                  *)
(* Content-Type: application/json and a non-empty body below the body      *)
(* parser's size limit.                                                    *)
(***************************************************************************)
EXTENDS Integers, Sequences, FiniteSets, TLC

\* ---- bounds -------------------------------------------------------------
MaxRequests == 2

\* ---- request bodies and JSON --------------------------------------------
NoName == "-"

\* A body text: its top-level kind, its members in textual order (array
\* elements and primitives carry NoName) and whether it holds insignificant
\* whitespace.
Text(k, s, w) == [kind |-> k, items |-> s, ws |-> w]

ObjectTexts ==
  { Text("object", <<<<"a", 1>>>>, FALSE),                            \* {"a":1}
    Text("object", <<<<"b", 2>>, <<"a", 1>>, <<"a", 2>>>>, TRUE) }    \* { "b": 2, "a": 1, "a": 2 }
ArrayTexts ==
  { Text("array", <<<<NoName, 1>>, <<NoName, 1>>>>, FALSE) }   \* [1,1]
PrimitiveTexts ==
  { Text("primitive", <<<<NoName, 1>>>>, FALSE) }              \* 1
MalformedTexts ==
  { Text("malformed", <<>>, FALSE) }                           \* {"a":
Bodies == ObjectTexts \cup ArrayTexts \cup PrimitiveTexts \cup MalformedTexts

NoText == [kind |-> "none", items |-> <<>>, ws |-> FALSE]

\* obj[k] = v on the ordered property list of a JS object
SetMember(props, k, v) ==
  IF \E i \in 1..Len(props) : props[i][1] = k
  THEN [i \in 1..Len(props) |-> IF props[i][1] = k THEN <<k, v>> ELSE props[i]]
  ELSE Append(props, <<k, v>>)

RECURSIVE ParseMembers(_, _)
ParseMembers(items, props) ==
  IF items = <<>> THEN props
  ELSE ParseMembers(Tail(items), SetMember(props, Head(items)[1], Head(items)[2]))

\* JSON.parse: a duplicated name keeps its first position and its last value
JSONParse(text) ==
  [kind  |-> text.kind,
   items |-> IF text.kind = "object" THEN ParseMembers(text.items, <<>>)
             ELSE text.items]

\* JSON.stringify: the compact text of a value
JSONStringify(value) ==
  [kind |-> value.kind, items |-> value.items, ws |-> FALSE]

\* express.json() in its default strict mode rejects a text whose first
\* character opens neither an object nor an array (the malformed text
\* modelled here is a truncated object)
StrictAccepts(text) == text.kind # "primitive"

\* variant: a lenient parser that lets a malformed text through
ParseableAlways(text) == TRUE

\* JSON.parse throws a SyntaxError on a malformed text
Parseable(text) == text.kind # "malformed"

NoValue == [kind |-> "none", items |-> <<>>]

\* express.json(): req.body, or the error passed to next()
BodyParser(text) ==
  IF StrictAccepts(text) /\ Parseable(text)
  THEN [ok |-> TRUE, body |-> JSONParse(text)]
  ELSE [ok |-> FALSE, body |-> NoValue]

\* ---- constants of the program -------------------------------------------
Channel == "trading-signals"
OkResponse == [status |-> 200, body |-> "Signal received and published"]
CatchResponse == [status |-> 500, body |-> "Error publishing signal"]
\* express' default error handler answering a body parser error
ParserErrorResponse == [status |-> 400, body |-> "body parser error page"]
NoResponse == [status |-> 0, body |-> ""]

\* variant: no 'error' listener on the client
NoErrorListener == FALSE

\* client.on('error', ...) is registered
ErrorListener == TRUE

\* variant: a reconnect strategy that gives up
NeverReconnect == FALSE

\* createClient() without options: the default reconnect strategy always
\* returns a delay, so the socket retries after every error
ShouldReconnect == TRUE

\* createClient() without options: disableOfflineQueue is not set
DisableOfflineQueue == FALSE

\* variant: the handler adds a field to the signal before publishing
MessageWithTimestamp(signal) ==
  [JSONStringify(signal) EXCEPT !.items = Append(@, <<"ts", 0>>)]

\* message argument of client.publish
Message(signal) == JSONStringify(signal)

\* ---- state --------------------------------------------------------------
VARIABLES
  proc,        \* "running" | "terminated"
  connected,   \* startServer is past `await client.connect()`
  listening,   \* app.listen has been called
  isOpen,      \* client socket: opened by connect() and not closed
  isReady,     \* client socket: connected to the broker
  errLogged,   \* a 'Redis Client Error' line has been logged
  req,         \* requests by id
  toSend,      \* client queue: commands waiting to be sent
  waiting,     \* client queue: commands written, waiting for a reply
  nProcessed,  \* how many commands at the head of `waiting` the broker executed
  delivered    \* messages the broker published to channels, in order

vars == <<proc, connected, listening, isOpen, isReady, errLogged, req, toSend,
          waiting, nProcessed, delivered>>

Ids == 1..MaxRequests

NoReq ==
  [st |-> "none", body |-> NoText, resp |-> NoResponse, responses |-> 0,
   calls |-> 0, written |-> 0, downAtHandle |-> FALSE, downSeen |-> FALSE]

InFlight(r) == req[r].st \in {"reading", "pending", "resolved", "rejected"}

IdsOf(q) == {q[i].id : i \in 1..Len(q)}

\* State after the module's top level ran: startServer() has called
\* client.connect() and is suspended at the await.
Init ==
  /\ proc = "running"
  /\ connected = FALSE
  /\ listening = FALSE
  /\ isOpen = TRUE
  /\ isReady = FALSE
  /\ errLogged = FALSE
  /\ req = [r \in Ids |-> NoReq]
  /\ toSend = <<>>
  /\ waiting = <<>>
  /\ nProcessed = 0
  /\ delivered = <<>>


\* ---- startServer --------------------------------------------------------

\* variant: startServer does not await client.connect()
StartServerListensAtOnce == TRUE

\* startServer calls app.listen only after `await client.connect()` resumed
StartServerMayListen == connected

\* the continuation of startServer: app.listen(3000, ...)
AppListen ==
  /\ proc = "running"
  /\ ~listening
  /\ StartServerMayListen
  /\ listening' = TRUE
  /\ UNCHANGED <<proc, connected, isOpen, isReady, errLogged, req, toSend,
                 waiting, nProcessed, delivered>>

\* ---- the redis client ---------------------------------------------------

\* variant: commands that were waiting for a reply are sent again
QueueAfterErrorResend(queued, sent) == sent \o queued

\* commands left waiting to be sent after a socket error: the commands that
\* were waiting for a reply are rejected, not queued again
QueueAfterError(queued, sent) ==
  IF DisableOfflineQueue THEN <<>> ELSE queued

\* requests whose publish promise is rejected by a socket error
RejectedByError(queued, sent) ==
  IF DisableOfflineQueue THEN IdsOf(queued) \cup IdsOf(sent) ELSE IdsOf(sent)

Reject(rs, r) ==
  IF r \in rs /\ req[r].st = "pending" THEN "rejected" ELSE req[r].st

\* a connection attempt fails while the socket is not ready (the initial
\* connect of startServer, or a reconnect)
ClientConnectFail ==
  /\ proc = "running"
  /\ isOpen /\ ~isReady
  /\ IF ShouldReconnect
     THEN \* 'error' is emitted and the socket retries after a delay
          /\ proc' = IF ErrorListener THEN "running" ELSE "terminated"
          /\ errLogged' = (errLogged \/ ErrorListener)
          /\ UNCHANGED <<isOpen, req, toSend>>
     ELSE \* the socket gives up: connect() rejects, which startServer()
          \* leaves unhandled; every queued command is rejected
          /\ isOpen' = FALSE
          /\ proc' = IF ErrorListener /\ connected THEN "running" ELSE "terminated"
          /\ errLogged' = (errLogged \/ ErrorListener)
          /\ req' = [r \in Ids |-> [req[r] EXCEPT !.st = Reject(IdsOf(toSend), r)]]
          /\ toSend' = <<>>
  /\ UNCHANGED <<connected, listening, isReady, waiting, nProcessed, delivered>>

\* the socket becomes ready: `await client.connect()` resolves (the first
\* time) and every command waiting to be sent is written
ClientConnectOk ==
  /\ proc = "running"
  /\ isOpen /\ ~isReady
  /\ isReady' = TRUE
  /\ connected' = TRUE
  /\ waiting' = waiting \o toSend
  /\ toSend' = <<>>
  /\ req' = [r \in Ids |->
               IF r \in IdsOf(toSend)
               THEN [req[r] EXCEPT !.written = @ + 1] ELSE req[r]]
  /\ UNCHANGED <<proc, listening, isOpen, errLogged, nProcessed, delivered>>

\* the connection to the broker drops: 'error' is emitted, the commands
\* waiting for a reply are rejected and the socket starts to reconnect
ClientError ==
  /\ proc = "running"
  /\ isOpen /\ isReady
  /\ isReady' = FALSE
  /\ isOpen' = ShouldReconnect
  /\ proc' = IF ErrorListener THEN "running" ELSE "terminated"
  /\ errLogged' = (errLogged \/ ErrorListener)
  /\ LET rejected == IF ShouldReconnect THEN RejectedByError(toSend, waiting)
                     ELSE IdsOf(toSend) \cup IdsOf(waiting)
     IN req' = [r \in Ids |->
                  [req[r] EXCEPT !.st = Reject(rejected, r),
                                 !.downSeen = @ \/ InFlight(r)]]
  /\ toSend' = IF ShouldReconnect THEN QueueAfterError(toSend, waiting) ELSE <<>>
  /\ waiting' = <<>>
  /\ nProcessed' = 0
  /\ UNCHANGED <<connected, listening, delivered>>

\* the broker executes the next PUBLISH it received
BrokerPublish ==
  /\ proc = "running"
  /\ isReady
  /\ nProcessed < Len(waiting)
  /\ LET cmd == waiting[nProcessed + 1]
     IN delivered' = Append(delivered,
                            [id |-> cmd.id, channel |-> cmd.channel, msg |-> cmd.msg])
  /\ nProcessed' = nProcessed + 1
  /\ UNCHANGED <<proc, connected, listening, isOpen, isReady, errLogged, req,
                 toSend, waiting>>

\* the reply to the oldest written command arrives: its promise resolves
PublishReply ==
  /\ proc = "running"
  /\ isReady
  /\ nProcessed > 0
  /\ LET cmd == Head(waiting)
     IN req' = [req EXCEPT ![cmd.id].st = IF @ = "pending" THEN "resolved" ELSE @]
  /\ waiting' = Tail(waiting)
  /\ nProcessed' = nProcessed - 1
  /\ UNCHANGED <<proc, connected, listening, isOpen, isReady, errLogged, toSend,
                 delivered>>

\* ---- POST /signal -------------------------------------------------------

\* a request is accepted by the listener
PostSignal(r, b) ==
  /\ proc = "running"
  /\ listening
  /\ req[r].st = "none"
  /\ \A q \in Ids : q < r => req[q].st # "none"
  /\ req' = [req EXCEPT ![r] = [NoReq EXCEPT !.st = "reading", !.body = b,
                                             !.downSeen = ~isReady]]
  /\ UNCHANGED <<proc, connected, listening, isOpen, isReady, errLogged, toSend,
                 waiting, nProcessed, delivered>>

\* the outcome of client.publish(channel, message) at the time of the call
PublishCall ==
  IF ~isOpen THEN "closed"
  ELSE IF ~isReady /\ DisableOfflineQueue THEN "offline"
  ELSE IF isReady THEN "written"
  ELSE "queued"

\* variant: the signal is kept in one variable shared by all requests
SignalShared(r) ==
  LET last == CHOOSE q \in Ids :
                /\ req[q].st # "none"
                /\ \A o \in Ids : req[o].st # "none" => o <= q
  IN BodyParser(req[last].body).body

\* const signal = req.body
Signal(r) == BodyParser(req[r].body).body

\* the body has been read: express.json() parses it and, when it parsed, the
\* route handler runs up to `await client.publish(...)`
SignalHandler(r) ==
  /\ proc = "running"
  /\ req[r].st = "reading"
  /\ LET parsed == BodyParser(req[r].body)
         cmd == [id |-> r, channel |-> Channel, msg |-> Message(Signal(r))]
     IN IF ~parsed.ok
        THEN /\ req' = [req EXCEPT ![r].st = "done",
                                   ![r].resp = ParserErrorResponse,
                                   ![r].responses = @ + 1]
             /\ UNCHANGED <<toSend, waiting>>
        ELSE /\ req' = [req EXCEPT
                  ![r].st = IF PublishCall \in {"closed", "offline"}
                            THEN "rejected" ELSE "pending",
                  ![r].calls = @ + 1,
                  ![r].written = IF PublishCall = "written" THEN @ + 1 ELSE @,
                  ![r].downAtHandle = ~isReady,
                  ![r].downSeen = @ \/ ~isReady]
             /\ waiting' = IF PublishCall = "written" THEN Append(waiting, cmd)
                           ELSE waiting
             /\ toSend' = IF PublishCall = "queued" THEN Append(toSend, cmd)
                          ELSE toSend
  /\ UNCHANGED <<proc, connected, listening, isOpen, isReady, errLogged,
                 nProcessed, delivered>>

\* variant: client.publish is not awaited
CanRespondNoAwait(st) == st \in {"pending", "resolved", "rejected"}

\* the handler continues after the await only when the promise has settled
CanRespond(st) == st \in {"resolved", "rejected"}

\* variant: the catch block returns the error to the caller
HandlerResponseLeak(st) ==
  IF st = "rejected" THEN [status |-> 500, body |-> "error detail"] ELSE OkResponse

\* the response of the try block or of the catch block
HandlerResponse(st) == IF st = "rejected" THEN CatchResponse ELSE OkResponse

\* variant: the catch block closes the shared client
ClientClosedOnFailure(st) == IF st = "rejected" THEN FALSE ELSE isOpen

\* the shared client after the try block or the catch block: neither closes,
\* replaces or reconfigures it
ClientAfterRespond(st) == isOpen

\* the route handler resumes after the await and answers
SignalRespond(r) ==
  /\ proc = "running"
  /\ CanRespond(req[r].st)
  /\ req' = [req EXCEPT ![r].st = "done",
                        ![r].resp = HandlerResponse(req[r].st),
                        ![r].responses = @ + 1]
  /\ isOpen' = ClientAfterRespond(req[r].st)
  /\ UNCHANGED <<proc, connected, listening, isReady, errLogged, toSend,
                 waiting, nProcessed, delivered>>

Next ==
  \/ AppListen
  \/ ClientConnectFail
  \/ ClientConnectOk
  \/ ClientError
  \/ BrokerPublish
  \/ PublishReply
  \/ \E r \in Ids, b \in Bodies : PostSignal(r, b)
  \/ \E r \in Ids : SignalHandler(r)
  \/ \E r \in Ids : SignalRespond(r)

Spec == Init /\ [][Next]_vars

TypeOK ==
  /\ proc \in {"running", "terminated"}
  /\ connected \in BOOLEAN /\ listening \in BOOLEAN
  /\ isOpen \in BOOLEAN /\ isReady \in BOOLEAN
  /\ errLogged \in BOOLEAN
  /\ nProcessed \in 0..Len(waiting)


\* ---- properties ---------------------------------------------------------

DeliveredFor(r) == {i \in 1..Len(delivered) : delivered[i].id = r}
Queued(r) == r \in IdsOf(toSend) \cup IdsOf(waiting)
Names(items) == {items[i][1] : i \in 1..Len(items)}
FirstAt(items, k) == CHOOSE i \in 1..Len(items) : items[i][1] = k /\ \A j \in 1..(i - 1) : items[j][1] # k
LastAt(items, k) == CHOOSE i \in 1..Len(items) : items[i][1] = k /\ \A j \in (i + 1)..Len(items) : items[j][1] # k

\* msg is the compact JSON text of the document written in text: the same
\* top-level kind and no whitespace; for an object every name of the document
\* once, in the order of first appearance and with the value the document
\* gives it (its last occurrence), and no other name; otherwise the same
\* elements in the same order
IsSerializationOf(msg, text) ==
  /\ msg.kind = text.kind
  /\ ~msg.ws
  /\ IF text.kind = "object"
     THEN /\ Names(msg.items) = Names(text.items)
          /\ Len(msg.items) = Cardinality(Names(text.items))
          /\ \A i \in 1..Len(msg.items) :
               msg.items[i][2] = text.items[LastAt(text.items, msg.items[i][1])][2]
          /\ \A i, j \in 1..Len(msg.items) :
               i < j => FirstAt(text.items, msg.items[i][1]) < FirstAt(text.items, msg.items[j][1])
     ELSE msg.items = text.items

\* the request got 200 and exactly one publish, of its own payload, on the channel
PublishedOnce(r) ==
  /\ req[r].resp = OkResponse
  /\ req[r].calls = 1 /\ req[r].written = 1
  /\ Cardinality(DeliveredFor(r)) = 1
  /\ \A i \in DeliveredFor(r) :
       /\ delivered[i].channel = "trading-signals"
       /\ IsSerializationOf(delivered[i].msg, req[r].body)

C3_DownMeans500AndNeverDelivered ==
  \A r \in Ids :
    req[r].downAtHandle =>
      /\ DeliveredFor(r) = {}
      /\ req[r].st = "done" => req[r].resp.status = 500


C5_ListenOnlyAfterConnect ==
  (\/ listening
   \/ \E r \in Ids : req[r].st # "none"
   \/ toSend # <<>> \/ waiting # <<>> \/ delivered # <<>>)
    => connected

C5_Witness ==
  /\ listening /\ connected /\ errLogged
  /\ \E r \in Ids : req[r].calls = 1

C7_StartupFailureTerminates ==
  (errLogged /\ ~connected) => (proc = "terminated" /\ ~listening)

\* C7 amended: while the initial connect has not succeeded, also after failed
\* attempts, the listener is not started and no request is served, and the
\* process stays alive with the client still open and retrying.
C7_StartupFailureKeepsRetrying ==
  ~connected =>
    /\ ~listening
    /\ \A r \in Ids : req[r].st = "none"
    /\ proc = "running" /\ isOpen /\ ~isReady

C7_Witness == errLogged /\ ~connected /\ ~listening

\* C8: connection errors are logged and never terminate the process or stop
\* the listener, whatever requests are in flight and whatever publish and
\* parse failures happened.
C8_ErrorsAreNotFatal ==
  /\ proc = "running"
  /\ isOpen
  /\ (connected /\ ~isReady) => errLogged
  /\ (\E r \in Ids : req[r].st # "none") => listening

C8_Witness ==
  /\ listening /\ ~isReady /\ errLogged /\ proc = "running"
  /\ \E r1, r2 \in Ids :
       /\ req[r1].resp.status \in {400, 500}
       /\ InFlight(r2)

\* C9: a 200 is sent for a request only after the broker executed that
\* request's publish and the reply settled the call: never while the command
\* is still queued or unanswered, never for a rejected or unattempted publish.
C9_OkOnlyAfterBrokerAccepted ==
  \A r \in Ids :
    req[r].resp.status = 200 =>
      /\ req[r].calls = 1 /\ req[r].written = 1
      /\ DeliveredFor(r) # {}
      /\ ~Queued(r)

C9_Witness ==
  \E r \in Ids : req[r].resp.status = 200 /\ req[r].downSeen /\ ~isReady

RECURSIVE TotalCalls(_)
TotalCalls(S) ==
  IF S = {} THEN 0
  ELSE LET r == CHOOSE x \in S : TRUE IN req[r].calls + TotalCalls(S \ {r})

\* C10: at most one publish call and one write per request; a request whose
\* publish was rejected is answered 500 and its command is never queued or
\* written again; publish attempts never outnumber the requests handled.
C10_NoRetry ==
  /\ \A r \in Ids :
       /\ req[r].calls <= 1 /\ req[r].written <= req[r].calls
       /\ Cardinality(DeliveredFor(r)) <= 1
       /\ req[r].st = "rejected" => ~Queued(r)
       /\ req[r].resp.status = 500 => (~Queued(r) /\ req[r].calls = 1)
       /\ (req[r].st = "done" /\ req[r].calls = 1 /\ DeliveredFor(r) = {})
            => req[r].resp.status = 500
  /\ TotalCalls(Ids) <= Cardinality({r \in Ids : req[r].st \notin {"none", "reading"}})
  /\ Len(toSend) + Len(waiting) - nProcessed + Len(delivered) <= TotalCalls(Ids)

\* a rejected request was answered 500 and the connection is back
C10_Witness ==
  \E r \in Ids :
    /\ req[r].resp.status = 500 /\ req[r].written = 1
    /\ isReady /\ toSend = <<>> /\ waiting = <<>>


\* C11 as claimed: every publish attempted while the connection is down fails
\* at once (the request is rejected and answered 500, its command is not kept
\* and never published), and a publish attempted while the connection is up
\* and stays up is answered 200.
C11_DownAttemptsFailUntilReconnect ==
  \A r \in Ids :
    /\ req[r].downAtHandle =>
         /\ req[r].st \in {"rejected", "done"}
         /\ req[r].st = "done" => req[r].resp = CatchResponse
         /\ ~Queued(r) /\ req[r].written = 0
    /\ (req[r].st = "done" /\ req[r].calls = 1 /\ ~req[r].downSeen)
         => req[r].resp = OkResponse


\* the operational state of the system
Operational ==
  IF proc # "running" THEN "terminated"
  ELSE IF ~isOpen THEN "closed"
  ELSE IF listening THEN "serving"
  ELSE "not yet connected"

\* C12: the system is only ever 'not yet connected' or 'serving'; the only
\* change is from 'not yet connected' to 'serving', made by the one call of
\* app.listen after the initial connect, which is never made again; once
\* serving the system keeps serving, whatever requests and errors follow.
C12_TwoOperationalStates ==
  [][/\ Operational \in {"not yet connected", "serving"}
     /\ Operational' \in {"not yet connected", "serving"}
     /\ Operational = "serving" => Operational' = "serving"
     /\ Operational' # Operational => (AppListen /\ connected)
     /\ AppListen => Operational = "not yet connected"]_vars

\* serving, after a connection error, a failed publish and a parse failure
C12_Witness ==
  /\ Operational = "serving" /\ errLogged /\ ~isReady
  /\ \E r1, r2 \in Ids :
       /\ req[r1].resp.status = 500
       /\ req[r2].resp.status = 400


\* a step of the POST /signal handling of request r: the request is accepted,
\* the handler calls publish, or a response is sent
HandlingStep(r) ==
  \/ req[r].st = "none" /\ req'[r].st # "none"
  \/ req'[r].calls # req[r].calls
  \/ req'[r].responses # req[r].responses

\* nothing of an answered request is kept by the process
NothingKept ==
  /\ \A r \in Ids : req[r].st = "done" => ~Queued(r)
  /\ (\A r \in Ids : req[r].st \in {"none", "done"}) =>
       (toSend = <<>> /\ waiting = <<>> /\ nProcessed = 0)

\* C13: no step of the handling of a request, whether it ends in 200 or 500,
\* changes the process, the listener or the shared client connection; the
\* only thing a handling step may add to the client is the one command of its
\* own request, which is gone when the request is answered, so that with every
\* request answered the client's queues are empty as before.
C13_HandlingLeavesStateUnchanged ==
  [][/\ NothingKept /\ NothingKept'
     /\ \A r \in Ids :
          HandlingStep(r) =>
            /\ UNCHANGED <<proc, connected, listening, isOpen, isReady, errLogged>>
            /\ UNCHANGED <<nProcessed, delivered>>
            /\ \/ UNCHANGED <<toSend, waiting>>
               \/ /\ req'[r].calls = req[r].calls + 1
                  /\ Len(toSend') + Len(waiting') = Len(toSend) + Len(waiting) + 1
                  /\ \A q \in Ids \ {r} : Queued(q)' = Queued(q)
            /\ \A q \in Ids \ {r} : req'[q] = req[q]]_vars

\* two requests answered, one with 200 and one with 500, and nothing left
C13_Witness ==
  /\ \E r1, r2 \in Ids :
       /\ req[r1].st = "done" /\ req[r1].resp.status = 200
       /\ req[r2].st = "done" /\ req[r2].resp.status = 500
  /\ toSend = <<>> /\ waiting = <<>>
  /\ isOpen /\ listening


\* The event loop runs every continuation that is ready (the handler after
\* the body was read, the handler after the publish call settled, startServer
\* after the connect resolved), and the broker executes and answers the
\* commands it received on a connection that is up.  Nothing makes a lost
\* connection come back: that depends on the broker being reachable.
LiveSpec ==
  /\ Spec
  /\ WF_vars(AppListen)
  /\ \A r \in Ids : WF_vars(SignalHandler(r))
  /\ \A r \in Ids : WF_vars(SignalRespond(r))
  /\ WF_vars(BrokerPublish)
  /\ WF_vars(PublishReply)

\* C14 as claimed: every request that reached the handler (it called publish)
\* is eventually answered, and no request is ever answered twice.
C14_EveryHandledRequestAnswered ==
  /\ [](\A r \in Ids : req[r].responses <= 1)
  /\ \A r \in Ids :
       (req[r].calls = 1) ~> (req[r].st = "done" /\ req[r].responses = 1)

====
